---- MODULE Spec2Model ----
(***************************************************************************)
(* Model of CODE_GENERIQUE_GEOJSON.py (and its commented twin              *)
(* CODE_GENERIQUE_GEOJSON_SUPERSET.py): the adaptive polygon simplifier    *)
(* and the GeoJSON -> Excel/GeoJSON pipeline that drives it.               *)
(*                                                                         *)
(* Geometry.  A ring is the sequence of its coordinate pairs.  The search  *)
(* only ever observes a coordinate through geom.simplify, so a coordinate  *)
(* is represented by its significance: the largest tolerance, in units of  *)
(* the initial tolerance 1e-10, at which the Douglas-Peucker primitive     *)
(* still keeps it (0 = exactly collinear with its neighbours).  The        *)
(* sequence is held run-length encoded: consecutive coordinates of equal   *)
(* significance form one run.                                              *)
(*                                                                         *)
(* Numbers.  tolerance and error_ratio are Python floats (IEEE binary64).  *)
(* They are kept here as non-negative rationals num/den in units of 1e-10, *)
(* num and den arbitrary-precision naturals (little-endian limb            *)
(* sequences).  The lower end of the float range is modelled: a product at *)
(* or below half the smallest positive float, 2^-1074, is 0.0.  Rounding   *)
(* to 53 bits is not: above that threshold the rational is the exact       *)
(* product.  The upper end is out of reach: a tolerance at most doubles    *)
(* per pass, and 1e-10 * 2^400 is far below the largest float.             *)
(***************************************************************************)
EXTENDS Integers, Sequences, FiniteSets, TLC

VARIABLES
    \* ---- frame of adaptive_polygon_simplify(geom, target_points, max_iterations)
    geom, target_points, max_iterations,
    original, tolerance, simplified, iteration,
    pc,            \* "entry" | "loop" | "done" | "error"   ("idle": no call active)
    ret,           \* the returned tuple (simplified, tolerance, original, simplified_n)
    n_calls,       \* geom.simplify invocations made by the current call
    last_call,     \* the arguments of the latest geom.simplify invocation
    \* ---- the direct caller: first call, then a call on the first call's result
    call_no, first_ret,
    \* ---- geojson_to_excel_with_exploded_multipolygons
    file,                \* content of input_geojson_path
    heap,                \* the dict objects that properties refer to
    features, fi,        \* the feature list and the index of the current feature
    props, polys, pj,    \* current feature: its properties (a reference), its polygons
    all_records, simplified_features,
    excel, out_geojson,  \* the two files written
    ppc                  \* "idle" | "load" | "feature" | "poly" | "call" | "export" | "done" | "error"

simplifier == <<geom, target_points, max_iterations, original, tolerance, simplified,
                iteration, pc, ret, n_calls, last_call>>
caller     == <<call_no, first_ret>>
pipeline   == <<file, heap, features, fi, props, polys, pj, all_records,
                simplified_features, excel, out_geojson, ppc>>
vars == <<simplifier, caller, pipeline>>

----------------------------------------------------------------------------
(* Arbitrary-precision naturals: little-endian limbs, no leading zero limb *)

Base == 1000000

\* Base = 10^LimbDigits, and the powers of ten below it
LimbDigits == 6
TenTo == <<1, 10, 100, 1000, 10000, 100000>>

Max(S) == CHOOSE m \in S : \A k \in S : k <= m
Min(S) == CHOOSE m \in S : \A k \in S : m <= k

RECURSIVE BigOf(_)
BigOf(n) == IF n = 0 THEN <<>> ELSE <<n % Base>> \o BigOf(n \div Base)

\* drop the leading (last) limb when it is zero
Trim(a) == IF a # <<>> /\ a[Len(a)] = 0 THEN SubSeq(a, 1, Len(a) - 1) ELSE a

\* a * k + carry for a # <<>>, as Len(a) limbs followed by the carry out;
\* the low half first, its carry out fed to the high half
RECURSIVE MulCarry(_, _, _)
MulCarry(a, k, carry) ==
    IF Len(a) = 1
    THEN LET t == a[1] * k + carry IN <<t % Base, t \div Base>>
    ELSE LET h  == Len(a) \div 2
             lo == MulCarry(SubSeq(a, 1, h), k, carry)
             hi == MulCarry(SubSeq(a, h + 1, Len(a)), k, lo[h + 1])
         IN  SubSeq(lo, 1, h) \o hi

\* a * k for a small natural k (k < 2000, so that a limb product fits 32 bits)
MulSmall(a, k) == IF k = 0 \/ a = <<>> THEN <<>> ELSE Trim(MulCarry(a, k, 0))

\* -1, 0, 1 as a < b, a = b, a > b: by length, then by the leading limb that differs
Cmp(a, b) ==
    IF Len(a) # Len(b) THEN (IF Len(a) < Len(b) THEN -1 ELSE 1)
    ELSE LET D == {i \in 1..Len(a) : a[i] # b[i]}
         IN  IF D = {} THEN 0
             ELSE IF a[Max(D)] < b[Max(D)] THEN -1 ELSE 1

\* a + b + carry for Len(a) = Len(b) > 0, as Len(a) limbs followed by the carry out
RECURSIVE AddCarry(_, _, _)
AddCarry(a, b, carry) ==
    IF Len(a) = 1
    THEN LET t == a[1] + b[1] + carry IN <<t % Base, t \div Base>>
    ELSE LET h  == Len(a) \div 2
             lo == AddCarry(SubSeq(a, 1, h), SubSeq(b, 1, h), carry)
             hi == AddCarry(SubSeq(a, h + 1, Len(a)), SubSeq(b, h + 1, Len(b)), lo[h + 1])
         IN  SubSeq(lo, 1, h) \o hi

\* a padded with zero limbs up to n limbs
Pad(a, n) == a \o [i \in 1..(n - Len(a)) |-> 0]

BigAdd(a, b) ==
    LET n == IF Len(a) < Len(b) THEN Len(b) ELSE Len(a)
    IN  IF n = 0 THEN <<>> ELSE Trim(AddCarry(Pad(a, n), Pad(b, n), 0))

\* a limb is HalfBase * hi + lo with hi, lo < HalfBase
HalfBase == 1000

\* a shifted up by n limbs: a * Base^n
Shift(a, n) == IF a = <<>> THEN <<>> ELSE [i \in 1..n |-> 0] \o a

\* a * b for a # <<>>, by halves of a: (lo + Base^h * hi) * b
RECURSIVE MulLimbs(_, _)
MulLimbs(a, b) ==
    IF Len(a) = 1
    THEN BigAdd(MulSmall(b, a[1] % HalfBase),
                MulSmall(MulSmall(b, a[1] \div HalfBase), HalfBase))
    ELSE LET h == Len(a) \div 2
         IN  BigAdd(MulLimbs(SubSeq(a, 1, h), b),
                    Shift(MulLimbs(SubSeq(a, h + 1, Len(a)), b), h))

BigMul(a, b) ==
    IF a = <<>> \/ b = <<>> THEN <<>>
    ELSE IF Len(a) <= Len(b) THEN MulLimbs(a, b) ELSE MulLimbs(b, a)

RECURSIVE GCD(_, _)
GCD(m, n) == IF n = 0 THEN m ELSE GCD(n, m % n)

----------------------------------------------------------------------------
(* Floats as exact rationals, in units of 1e-10                           *)

Rat(n, d) == [num |-> n, den |-> d]

\* 0.0 (line 21) and 1e-10 (line 23)
ZeroTol == Rat(<<>>, <<1>>)
InitTol == Rat(<<1>>, <<1>>)

\* x <= y and x < y for rationals with positive denominators
RatLeq(x, y) == Cmp(BigMul(x.num, y.den), BigMul(y.num, x.den)) <= 0
RatLt(x, y)  == Cmp(BigMul(x.num, y.den), BigMul(y.num, x.den)) < 0

\* x * (a / b) for small naturals a, b with b > 0, a/b in lowest terms
RatScale(x, a, b) ==
    LET g == GCD(a, b)
    IN  Rat(MulSmall(x.num, a \div g), MulSmall(x.den, b \div g))

\* 2^n
RECURSIVE Pow2(_)
Pow2(n) ==
    IF n = 0 THEN <<1>>
    ELSE LET h == Pow2(n \div 2)
             s == BigMul(h, h)
         IN  IF n % 2 = 1 THEN MulSmall(s, 2) ELSE s

\* 2^-1075, half the smallest positive float, in units of 1e-10 (10^10 of them
\* make 1): a float product whose exact value is at most this rounds (to
\* nearest, ties to even) to 0.0
Underflow == Rat(BigMul(BigOf(100000), BigOf(100000)), Pow2(1075))

\* the decimal digits of 2^1075 number 324: a rational whose denominator has
\* fewer than 300 digits more than its numerator is above Underflow
Margin == 300 \div LimbDigits

\* the float product x * (a / b)
FloatScale(x, a, b) ==
    LET y == RatScale(x, a, b)
    IN  IF y.num = <<>> THEN ZeroTol
        ELSE IF Len(y.den) - Len(y.num) < Margin THEN y
        ELSE IF RatLeq(y, Underflow) THEN ZeroTol ELSE y

----------------------------------------------------------------------------
(* Geometry: shapely's Polygon / MultiPolygon / other, and geom.simplify  *)

\* A coordinate's significance is counted in 1/SigDen of the unit 1e-10.
SigDen == 1000

Polygon(rs)      == [type |-> "Polygon", rings |-> rs, geoms |-> <<>>]
MultiPolygon(ps) == [type |-> "MultiPolygon", rings |-> <<>>, geoms |-> ps]
LineString(cs)   == [type |-> "LineString", rings |-> <<cs>>, geoms |-> <<>>]
NoGeom           == [type |-> "None", rings |-> <<>>, geoms |-> <<>>]

\* n consecutive coordinates of significance sig
Run(sig, n) == <<[sig |-> sig, n |-> n]>>

\* len(ring.coords)
RECURSIVE RingLen(_)
RingLen(r) == IF r = <<>> THEN 0 ELSE Head(r).n + RingLen(Tail(r))

RECURSIVE SumLen(_)
SumLen(rs) == IF rs = <<>> THEN 0 ELSE RingLen(Head(rs)) + SumLen(Tail(rs))

\* def total_coords_count(geom): rings = [exterior] + interiors, summed lengths;
\* 0 for anything that is not a Polygon.
total_coords_count(g) == IF g.type = "Polygon" THEN SumLen(g.rings) ELSE 0

\* The Douglas-Peucker test: a coordinate of significance s survives tolerance x
\* iff s / SigDen > x.
ExceedsTol(s, x) == Cmp(BigMul(BigOf(s), x.den), MulSmall(x.num, SigDen)) > 0

\* A closed ring needs at least this many coordinate pairs to stay valid.
MinRing == 4

\* The coordinates of ring r of which K[i] are kept in run i, in ring order:
\* emptied runs dropped, neighbouring runs of equal significance joined
RECURSIVE Compact(_)
Compact(r) ==
    IF r = <<>> THEN <<>>
    ELSE LET h == Head(r)
             t == Compact(Tail(r))
         IN  IF h.n = 0 THEN t
             ELSE IF t # <<>> /\ t[1].sig = h.sig
             THEN <<[sig |-> h.sig, n |-> h.n + t[1].n]>> \o Tail(t)
             ELSE <<h>> \o t

KeepRing(r, K) == Compact([i \in 1..Len(r) |-> [sig |-> r[i].sig, n |-> K[i]]])

RECURSIVE SumSeq(_)
SumSeq(K) == IF K = <<>> THEN 0 ELSE Head(K) + SumSeq(Tail(K))

\* preserve_topology=True never lets a ring collapse: while fewer than MinRing
\* coordinates survive, the most significant of the others (the first of them in
\* ring order) is kept as well.
RECURSIVE Widen(_, _)
Widen(r, K) ==
    IF SumSeq(K) >= MinRing \/ SumSeq(K) >= RingLen(r) THEN K
    ELSE LET rest == {i \in 1..Len(r) : K[i] < r[i].n}
             top  == Max({r[i].sig : i \in rest})
             j    == Min({i \in rest : r[i].sig = top})
         IN  Widen(r, [K EXCEPT ![j] = @ + 1])

\* Douglas-Peucker on one ring: the two end points (the closing pair) always
\* survive, an inner coordinate survives iff its significance exceeds tol.
SimplifyRing(r, tol, preserve_topology) ==
    LET Ends(i) == (IF i = 1 THEN 1 ELSE 0) + (IF i = Len(r) THEN 1 ELSE 0)
        K == [i \in 1..Len(r) |->
                IF ExceedsTol(r[i].sig, tol) THEN r[i].n ELSE Ends(i)]
    IN  IF RingLen(r) <= 2 THEN r
        ELSE IF preserve_topology /\ SumSeq(K) < MinRing THEN KeepRing(r, Widen(r, K))
        ELSE KeepRing(r, K)

\* a polygon of the rings rs, the first of them the exterior; a ring left with
\* fewer than MinRing coordinates is lost: a hole disappears, a lost exterior
\* empties the polygon
Rebuild(rs) ==
    LET Ok(r) == RingLen(r) >= MinRing
    IN  IF ~Ok(rs[1]) THEN Polygon(<<>>)
        ELSE Polygon(<<rs[1]>> \o SelectSeq(SubSeq(rs, 2, Len(rs)), Ok))

\* geom.simplify(tolerance, preserve_topology): every ring simplified on its own
simplify(g, tol, preserve_topology) ==
    IF g.type # "Polygon" \/ g.rings = <<>> THEN g
    ELSE Rebuild([i \in 1..Len(g.rings) |->
                     SimplifyRing(g.rings[i], tol, preserve_topology)])

----------------------------------------------------------------------------
(* adaptive_polygon_simplify(geom, target_points=780, max_iterations=400) *)

\* the literal 780 of the while condition, and the two defaults
Ceiling               == 780
DefaultTargetPoints   == 780
DefaultMaxIterations  == 400

NoRet  == [geom |-> NoGeom, tolerance |-> ZeroTol, original |-> 0, simplified_n |-> 0]
NoCall == [geom |-> NoGeom, tolerance |-> ZeroTol, preserve_topology |-> FALSE]

\* The callee's frame on entry: parameters bound, locals not yet assigned.
Enter(g, tp, mi) ==
    /\ geom' = g /\ target_points' = tp /\ max_iterations' = mi
    /\ original' = 0 /\ tolerance' = ZeroTol /\ simplified' = NoGeom /\ iteration' = 0
    /\ ret' = NoRet /\ n_calls' = 0 /\ last_call' = NoCall
    /\ pc' = "entry"

\* the fast path taken only strictly below the target
WithinTarget_Strict == total_coords_count(geom) < target_points

\* line 20, the test of the fast path
WithinTarget == total_coords_count(geom) <= target_points

\* lines 19-21: already within the target, returned as it came
FastPath ==
    /\ pc = "entry"
    /\ WithinTarget
    /\ original' = total_coords_count(geom)
    /\ ret' = [geom |-> geom, tolerance |-> ZeroTol,
               original |-> original', simplified_n |-> original']
    /\ pc' = "done"
    /\ UNCHANGED <<geom, target_points, max_iterations, tolerance, simplified,
                   iteration, n_calls, last_call>>
    /\ UNCHANGED <<caller, pipeline>>

\* lines 19-20 (test false) and 23-25: first, near-lossless pass
SearchInit ==
    /\ pc = "entry"
    /\ ~WithinTarget
    /\ original' = total_coords_count(geom)
    /\ tolerance' = InitTol
    /\ simplified' = simplify(geom, tolerance', TRUE)
    /\ last_call' = [geom |-> geom, tolerance |-> tolerance', preserve_topology |-> TRUE]
    /\ n_calls' = n_calls + 1
    /\ iteration' = 0
    /\ pc' = "loop"
    /\ UNCHANGED <<geom, target_points, max_iterations, ret>>
    /\ UNCHANGED <<caller, pipeline>>

\* line 27
LoopCond == total_coords_count(simplified) > Ceiling /\ iteration < max_iterations

\* line 29: tolerance *= min(error_ratio, 2), error_ratio = c / target_points
Escalate(tol, c, tp) == IF c >= 2 * tp THEN FloatScale(tol, 2, 1) ELSE FloatScale(tol, c, tp)

\* the while body re-simplifying its own previous result instead of geom
LoopBody_Compounding ==
    /\ pc = "loop"
    /\ LoopCond
    /\ IF target_points = 0
       THEN /\ pc' = "error"
            /\ UNCHANGED <<tolerance, simplified, iteration, n_calls, last_call>>
       ELSE /\ tolerance' = Escalate(tolerance, total_coords_count(simplified), target_points)
            /\ simplified' = simplify(simplified, tolerance', TRUE)
            /\ last_call' = [geom |-> simplified, tolerance |-> tolerance',
                             preserve_topology |-> TRUE]
            /\ n_calls' = n_calls + 1
            /\ iteration' = iteration + 1
            /\ pc' = "loop"
    /\ UNCHANGED <<geom, target_points, max_iterations, original, ret>>
    /\ UNCHANGED <<caller, pipeline>>

\* lines 27-32: one pass of the while body.  The division of line 28 raises
\* ZeroDivisionError when target_points is 0.
LoopBody ==
    /\ pc = "loop"
    /\ LoopCond
    /\ IF target_points = 0
       THEN /\ pc' = "error"
            /\ UNCHANGED <<tolerance, simplified, iteration, n_calls, last_call>>
       ELSE /\ tolerance' = Escalate(tolerance, total_coords_count(simplified), target_points)
            /\ simplified' = simplify(geom, tolerance', TRUE)
            /\ last_call' = [geom |-> geom, tolerance |-> tolerance',
                             preserve_topology |-> TRUE]
            /\ n_calls' = n_calls + 1
            /\ iteration' = iteration + 1
            /\ pc' = "loop"
    /\ UNCHANGED <<geom, target_points, max_iterations, original, ret>>
    /\ UNCHANGED <<caller, pipeline>>

\* line 27 (test false) and 34-35
Return ==
    /\ pc = "loop"
    /\ ~LoopCond
    /\ ret' = [geom |-> simplified, tolerance |-> tolerance,
               original |-> original, simplified_n |-> total_coords_count(simplified)]
    /\ pc' = "done"
    /\ UNCHANGED <<geom, target_points, max_iterations, original, tolerance,
                   simplified, iteration, n_calls, last_call>>
    /\ UNCHANGED <<caller, pipeline>>

adaptive_polygon_simplify == FastPath \/ SearchInit \/ LoopBody \/ Return

----------------------------------------------------------------------------
(* JSON values, dicts and formatted text                                   *)

\* A GeoJSON geometry object as json.load gives it: "coordinates" of a Polygon are
\* its rings; the polygons of a MultiPolygon are kept apart in "parts".
RawGeom(t, cs, ps) == [type |-> t, coordinates |-> cs, parts |-> ps]
NoRaw == RawGeom("None", <<>>, <<>>)

\* shapely.geometry.shape: GeoJSON geometry object -> geometry
shape(raw) ==
    IF raw.type = "Polygon" THEN Polygon(raw.coordinates)
    ELSE IF raw.type = "MultiPolygon"
         THEN MultiPolygon([i \in 1..Len(raw.parts) |-> Polygon(raw.parts[i])])
    ELSE [type |-> raw.type, rings |-> raw.coordinates, geoms |-> <<>>]

\* shapely.geometry.mapping: geometry -> GeoJSON geometry object
mapping(g) ==
    IF g.type = "MultiPolygon"
    THEN RawGeom(g.type, <<>>, [i \in 1..Len(g.geoms) |-> g.geoms[i].rings])
    ELSE RawGeom(g.type, g.rings, <<>>)

\* A dict value: a text (a template s with the numbers n filled in), or the
\* compact JSON text of an object holding the geometry object g.
Str(t)       == [s |-> t, n |-> <<>>, g |-> NoRaw]
Fmt(t, nums) == [s |-> t, n |-> nums, g |-> NoRaw]

\* json.dumps({"type":"Feature","geometry":geom_json}, separators=(',',':'))
dumps(geom_json) == [s |-> "{\"type\":\"Feature\",\"geometry\":_}", n |-> <<>>, g |-> geom_json]

EmptyDict == <<>>
DictSet(d, k, v) == [x \in (DOMAIN d) \cup {k} |-> IF x = k THEN v ELSE d[x]]

\* 1e-10 = 10^InitTolExp, the unit tolerances are counted in
InitTolExp == -10

\* 10^k, and the number of decimal digits of a # <<>>
Pow10(k)  == [i \in 1..(k \div LimbDigits) |-> 0] \o <<TenTo[(k % LimbDigits) + 1]>>
Digits(a) == LimbDigits * (Len(a) - 1)
             + Cardinality({d \in 1..LimbDigits : a[Len(a)] >= TenTo[d]})

\* format(tol, ".0e") for tol > 0: one significant digit, round half to even,
\* then the decimal exponent; <<digit, exponent>>
FormatPositive(tol) ==
    LET e0 == Digits(tol.num) - Digits(tol.den)
        \* tol >= 10^e0 ?  (10^(e0-1) < tol < 10^(e0+1) in any case)
        ge == IF e0 >= 0 THEN Cmp(tol.num, BigMul(tol.den, Pow10(e0))) >= 0
              ELSE Cmp(BigMul(tol.num, Pow10(0 - e0)), tol.den) >= 0
        k  == IF ge THEN e0 ELSE e0 - 1
        \* a / b = tol / 10^k, in [1, 10)
        a  == IF k >= 0 THEN tol.num ELSE BigMul(tol.num, Pow10(0 - k))
        b  == IF k >= 0 THEN BigMul(tol.den, Pow10(k)) ELSE tol.den
        m  == Max({d \in 1..9 : Cmp(MulSmall(b, d), a) <= 0})
        c  == Cmp(MulSmall(a, 2), MulSmall(b, 2 * m + 1))
        r  == IF c > 0 \/ (c = 0 /\ m % 2 = 1) THEN m + 1 ELSE m
    IN  IF r = 10 THEN <<1, k + 1 + InitTolExp>> ELSE <<r, k + InitTolExp>>

\* format(tol, ".0e"); 0.0 is written 0e+00
FormatE(tol) == IF tol.num = <<>> THEN <<0, 0>> ELSE FormatPositive(tol)

----------------------------------------------------------------------------
(* geojson_to_excel_with_exploded_multipolygons(input, output_excel, output_geojson) *)

\* "properties" of a feature: a dict, JSON null, or no such key
PropsDict(d) == [kind |-> "dict", val |-> d]
PropsNull    == [kind |-> "null", val |-> EmptyDict]
PropsAbsent  == [kind |-> "absent", val |-> EmptyDict]
\* "geometry" of a feature: a geometry object, or no such key
GeomOf(raw)  == [kind |-> "geom", val |-> raw]
GeomAbsent   == [kind |-> "absent", val |-> NoRaw]

Feature(p, g)          == [type |-> "Feature", features |-> <<>>, properties |-> p, geometry |-> g]
FeatureCollection(fs)  == [type |-> "FeatureCollection", features |-> fs,
                           properties |-> PropsAbsent, geometry |-> GeomAbsent]
NoFile                 == [type |-> "None", features |-> <<>>,
                           properties |-> PropsAbsent, geometry |-> GeomAbsent]

None == 0

\* lines 39-48: json.load, then the list of features or ValueError.  Each parsed
\* "properties" dict is an object of its own: heap[i] is the one of feature i.
Load ==
    /\ ppc = "load"
    /\ LET fs == IF file.type = "FeatureCollection" THEN file.features
                 ELSE IF file.type = "Feature" THEN <<file>> ELSE <<>>
       IN  /\ heap' = [i \in 1..Len(fs) |-> fs[i].properties.val]
           /\ features' = [i \in 1..Len(fs) |->
                             [properties |-> [kind |-> fs[i].properties.kind, ref |-> i],
                              geometry |-> fs[i].geometry]]
    /\ ppc' = IF file.type \in {"FeatureCollection", "Feature"} THEN "feature" ELSE "error"
    /\ fi' = 1
    /\ UNCHANGED <<file, props, polys, pj, all_records, simplified_features,
                   excel, out_geojson>>
    /\ UNCHANGED <<simplifier, caller>>

\* only the first polygon of a MultiPolygon kept
explode_FirstPartOnly(g) ==
    IF g.type = "MultiPolygon" THEN SubSeq(g.geoms, 1, 1)
    ELSE IF g.type = "Polygon" THEN <<g>> ELSE <<>>

\* lines 58-63: the polygons of a geometry; none for an unsupported type
explode(g) ==
    IF g.type = "MultiPolygon" THEN g.geoms
    ELSE IF g.type = "Polygon" THEN <<g>> ELSE <<>>

\* lines 53-63: head of the loop over features, up to the list of polygons
NextFeature ==
    /\ ppc = "feature"
    /\ fi <= Len(features)
    /\ LET f == features[fi]
           ps == explode(shape(f.geometry.val))
       IN  \* line 54: feature.get("properties", {})
           /\ IF f.properties.kind = "absent"
              THEN heap' = Append(heap, EmptyDict) /\ props' = Len(heap')
              ELSE heap' = heap /\
                   props' = (IF f.properties.kind = "null" THEN None ELSE f.properties.ref)
           \* line 55: feature["geometry"] raises KeyError when the key is missing
           /\ IF f.geometry.kind = "absent"
              THEN ppc' = "error" /\ UNCHANGED <<fi, polys, pj>>
              ELSE IF ps = <<>>
              THEN ppc' = "feature" /\ fi' = fi + 1 /\ UNCHANGED <<polys, pj>>
              ELSE ppc' = "poly" /\ polys' = ps /\ pj' = 1 /\ UNCHANGED fi
    /\ UNCHANGED <<file, features, all_records, simplified_features, excel, out_geojson>>
    /\ UNCHANGED <<simplifier, caller>>

\* line 66, the call: adaptive_polygon_simplify(poly) with both defaults
Call ==
    /\ ppc = "poly"
    /\ Enter(polys[pj], DefaultTargetPoints, DefaultMaxIterations)
    /\ ppc' = "call"
    /\ UNCHANGED <<file, heap, features, fi, props, polys, pj, all_records,
                   simplified_features, excel, out_geojson>>
    /\ UNCHANGED caller

\* the test written tol >= 0
simplification_info_Geq(r) ==
    IF RatLeq(ZeroTol, r.tolerance)
    THEN Fmt("_→_ points (tolérance=_e_)",
             <<r.original, r.simplified_n>> \o FormatE(r.tolerance))
    ELSE Str("Aucune simplification")

\* lines 85-88
simplification_info(r) ==
    IF RatLt(ZeroTol, r.tolerance)
    THEN Fmt("_→_ points (tolérance=_e_)",
             <<r.original, r.simplified_n>> \o FormatE(r.tolerance))
    ELSE Str("Aucune simplification")

\* lines 79-88: the Excel row, built on a copy of the properties
record_of(p, geom_json, r) ==
    DictSet(DictSet(p, "geometry", dumps(geom_json)),
            "simplification_info", simplification_info(r))

\* record = props instead of props.copy(): the row is the shared dict itself
Emit_NoCopy ==
    /\ ppc = "call"
    /\ pc = "done"
    /\ LET geom_json == mapping(ret.geom)
       IN  /\ simplified_features' = Append(simplified_features,
                  [type |-> "Feature", geometry |-> geom_json, properties |-> props])
           /\ IF props = None
              THEN ppc' = "error" /\ UNCHANGED <<all_records, heap, fi, pj>>
              ELSE /\ heap' = [heap EXCEPT ![props] = record_of(heap[props], geom_json, ret)]
                   /\ all_records' = Append(all_records, heap'[props])
                   /\ IF pj < Len(polys)
                      THEN ppc' = "poly" /\ pj' = pj + 1 /\ UNCHANGED fi
                      ELSE ppc' = "feature" /\ fi' = fi + 1 /\ UNCHANGED pj
    /\ UNCHANGED <<file, features, props, polys, excel, out_geojson>>
    /\ UNCHANGED <<simplifier, caller>>

\* lines 66 (the assignment) to 90, then the loop heads of lines 65 and 53.
\* props.copy() raises AttributeError when "properties" was JSON null.
Emit ==
    /\ ppc = "call"
    /\ pc = "done"
    /\ LET geom_json == mapping(ret.geom)
       IN  /\ simplified_features' = Append(simplified_features,
                  [type |-> "Feature", geometry |-> geom_json, properties |-> props])
           /\ IF props = None
              THEN ppc' = "error" /\ UNCHANGED <<all_records, fi, pj>>
              ELSE /\ all_records' = Append(all_records, record_of(heap[props], geom_json, ret))
                   /\ IF pj < Len(polys)
                      THEN ppc' = "poly" /\ pj' = pj + 1 /\ UNCHANGED fi
                      ELSE ppc' = "feature" /\ fi' = fi + 1 /\ UNCHANGED pj
    /\ UNCHANGED <<file, heap, features, props, polys, excel, out_geojson>>
    /\ UNCHANGED <<simplifier, caller>>

RECURSIVE Columns(_)
Columns(rows) == IF rows = <<>> THEN {} ELSE (DOMAIN Head(rows)) \cup Columns(Tail(rows))

\* lines 93-102: both files written, properties serialised as they are by then
Export ==
    /\ ppc = "feature"
    /\ fi > Len(features)
    /\ excel' = [columns |-> Columns(all_records), rows |-> all_records]
    /\ out_geojson' =
          [type |-> "FeatureCollection",
           features |-> [i \in 1..Len(simplified_features) |->
               LET f == simplified_features[i]
               IN  [type |-> f.type, geometry |-> f.geometry,
                    properties |-> IF f.properties = None THEN PropsNull
                                   ELSE PropsDict(heap[f.properties])]]]
    /\ ppc' = "done"
    /\ UNCHANGED <<file, heap, features, fi, props, polys, pj, all_records,
                   simplified_features>>
    /\ UNCHANGED <<simplifier, caller>>

geojson_to_excel_with_exploded_multipolygons ==
    Load \/ NextFeature \/ Call \/ Emit \/ Export

----------------------------------------------------------------------------
(* Inputs                                                                  *)

\* Significances (in 1/SigDen of 1e-10) of the coordinates the inputs are made of:
\* Hard is a vertex of an 800-gon inscribed in a circle of radius 1 degree
\* (3.1e-5), Soft one that a tolerance of 1.002e-10 already removes; 0 is a
\* coordinate lying exactly on the segment between its neighbours.
Hard == 310000000
Soft == 1002

\* bounds of the direct calls: max_iterations in 0..MaxIter, target_points within
\* Spread of the ceiling (and 0, and half the ceiling)
MaxIter == 3
Spread  == 2

SmallRing     == Run(Hard, 5)
StubbornRing  == Run(Hard, Ceiling + 1)
YieldingRing  == Run(Hard, 1) \o Run(Soft, 6) \o Run(Hard, Ceiling - 4)
CollinearRing == Run(Hard, 1) \o Run(0, 2) \o Run(Hard, Ceiling)
SoftHole      == Run(Hard, 1) \o Run(Soft, 83) \o Run(Hard, 1)

\* a target of ten times the least count the loop still works on, and a ring of
\* one coordinate more, nine in ten of them lying on the segment between their
\* neighbours
LargeTarget   == 10 * (Ceiling + 1)
DecimatedRing == Run(Hard, 1) \o Run(0, LargeTarget - Ceiling) \o Run(Hard, Ceiling)

CallGeoms == <<
    Polygon(<<SmallRing>>),
    Polygon(<<StubbornRing>>),
    Polygon(<<YieldingRing>>),
    Polygon(<<CollinearRing>>),
    Polygon(<<Run(Hard, 700), SoftHole>>),
    LineString(Run(Hard, 3)),
    Polygon(<<DecimatedRing>>) >>

Targets == {0, Ceiling \div 2} \cup ((Ceiling - Spread)..(Ceiling + Spread))

\* the direct calls: <<index in CallGeoms, target_points, max_iterations>>; the
\* last is the decimated polygon with the large target and the default
\* max_iterations
Calls == ((1..Len(CallGeoms)) \X Targets \X (0..MaxIter))
         \cup {<<Len(CallGeoms), LargeTarget, DefaultMaxIterations>>}

\* the coordinate counts of the polygons the pipeline is fed
BigCount   == 800
PartCount  == 10
SoftCount  == 25

TenRing      == Run(Hard, PartCount)
Ring800      == Run(Hard, BigCount)
Ring800Soft  == Run(Hard, 1) \o Run(Soft, SoftCount) \o Run(Hard, BigCount - SoftCount - 1)

RawPolygon(rs)      == RawGeom("Polygon", rs, <<>>)
RawMultiPolygon(ps) == RawGeom("MultiPolygon", <<>>, ps)
RawLineString(cs)   == RawGeom("LineString", <<cs>>, <<>>)

AttrsA == [k \in {"nom"} |-> Str("A")]
AttrsB == [k \in {"nom", "code"} |-> IF k = "nom" THEN Str("B") ELSE Str("95")]
AttrsC == [k \in {"nom", "geometry"} |-> IF k = "nom" THEN Str("C") ELSE Str("x")]

Files == <<
    \* 1: a polygon over budget that soon shrinks, a line, a MultiPolygon of 3
    \*    small polygons
    FeatureCollection(<<
        Feature(PropsDict(AttrsA), GeomOf(RawPolygon(<<Ring800Soft>>))),
        Feature(PropsDict(AttrsB), GeomOf(RawLineString(Run(Hard, 3)))),
        Feature(PropsDict(AttrsC), GeomOf(RawMultiPolygon(<< <<TenRing>>, <<TenRing>>, <<TenRing>> >>))) >>),
    \* 2: a single Feature at top level, over budget, that soon shrinks
    Feature(PropsDict(AttrsC), GeomOf(RawPolygon(<<Ring800Soft>>))),
    \* 3: neither a Feature nor a FeatureCollection
    [NoFile EXCEPT !.type = "GeometryCollection"],
    \* 4: no "properties" key, null properties, a polygon with a hole
    FeatureCollection(<<
        Feature(PropsAbsent, GeomOf(RawMultiPolygon(<< <<TenRing>>, <<Ring800Soft, SoftHole>> >>))),
        Feature(PropsNull, GeomOf(RawLineString(Run(Hard, 2)))),
        Feature(PropsDict(AttrsB), GeomOf(RawPolygon(<<Run(Hard, 700), SoftHole>>))),
        Feature(PropsNull, GeomOf(RawPolygon(<<TenRing>>))) >>),
    \* 5: a feature without "geometry"
    FeatureCollection(<<
        Feature(PropsDict(AttrsA), GeomOf(RawPolygon(<<TenRing>>))),
        Feature(PropsDict(AttrsB), GeomAbsent) >>),
    \* 6: one Feature, one polygon of 800 exterior coordinates, no hole, that no
    \*    tolerance within reach shrinks
    FeatureCollection(<< Feature(PropsDict(AttrsA), GeomOf(RawPolygon(<<Ring800>>))) >>),
    \* 7: nothing
    FeatureCollection(<<>>) >>

----------------------------------------------------------------------------
(* Specifications                                                          *)

IdleSimplifier ==
    /\ geom = NoGeom /\ target_points = 0 /\ max_iterations = 0
    /\ original = 0 /\ tolerance = ZeroTol /\ simplified = NoGeom /\ iteration = 0
    /\ ret = NoRet /\ n_calls = 0 /\ last_call = NoCall
    /\ pc = "idle"

IdlePipeline ==
    /\ file = NoFile /\ heap = <<>> /\ features = <<>> /\ fi = 0
    /\ props = None /\ polys = <<>> /\ pj = 0
    /\ all_records = <<>> /\ simplified_features = <<>>
    /\ excel = [columns |-> {}, rows |-> <<>>]
    /\ out_geojson = [type |-> "None", features |-> <<>>]
    /\ ppc = "idle"

\* The script: the module-level call of lines 106-110 on some input file.
Init ==
    /\ IdleSimplifier
    /\ call_no = 0 /\ first_ret = NoRet
    /\ \E i \in 1..Len(Files) :
          /\ file = Files[i] /\ heap = <<>> /\ features = <<>> /\ fi = 0
          /\ props = None /\ polys = <<>> /\ pj = 0
          /\ all_records = <<>> /\ simplified_features = <<>>
          /\ excel = [columns |-> {}, rows |-> <<>>]
          /\ out_geojson = [type |-> "None", features |-> <<>>]
          /\ ppc = "load"

Next == geojson_to_excel_with_exploded_multipolygons \/ adaptive_polygon_simplify

Spec == Init /\ [][Next]_vars

\* A caller of adaptive_polygon_simplify with arguments of its own, who then
\* calls it again on the geometry it got back.
InitCall ==
    /\ IdlePipeline
    /\ call_no = 1 /\ first_ret = NoRet
    /\ \E c \in Calls :
          /\ geom = CallGeoms[c[1]] /\ target_points = c[2] /\ max_iterations = c[3]
          /\ original = 0 /\ tolerance = ZeroTol /\ simplified = NoGeom /\ iteration = 0
          /\ ret = NoRet /\ n_calls = 0 /\ last_call = NoCall
          /\ pc = "entry"

SecondCall ==
    /\ ppc = "idle"
    /\ pc = "done"
    /\ call_no = 1
    /\ Enter(ret.geom, target_points, max_iterations)
    /\ first_ret' = ret
    /\ call_no' = 2
    /\ UNCHANGED pipeline

NextCall == adaptive_polygon_simplify \/ SecondCall

SpecCall == InitCall /\ [][NextCall]_vars

\* The same caller leaving target_points at its default.
InitDefaultTarget == InitCall /\ target_points = DefaultTargetPoints

SpecDefaultTarget == InitDefaultTarget /\ [][NextCall]_vars
----------------------------------------------------------------------------
(* Properties of adaptive_polygon_simplify, checked under SpecCall          *)

Returned == pc = "done"

\* C1: a call whose geometry counts at most target_points coordinates returns
\* that very geometry, tolerance exactly 0, both counts equal to its count, and
\* never invokes geom.simplify.
C1_FastPathIsNoOp ==
    (Returned /\ total_coords_count(geom) <= target_points) =>
        /\ ret.geom = geom
        /\ ret.tolerance = ZeroTol
        /\ ret.original = total_coords_count(geom)
        /\ ret.simplified_n = total_coords_count(geom)
        /\ n_calls = 0

\* the boundary case: a polygon of exactly target_points coordinates came back
C1_Witness ==
    /\ Returned /\ geom.type = "Polygon"
    /\ total_coords_count(geom) = target_points

\* C2: a call whose polygon counts more than target_points coordinates returns a
\* tolerance > 0, and at return the result counts at most 780 coordinates or
\* iteration equals max_iterations.
C2_SearchPostcondition ==
    (Returned /\ total_coords_count(geom) > target_points) =>
        /\ RatLt(ZeroTol, ret.tolerance)
        /\ ret.simplified_n = total_coords_count(ret.geom)
        /\ (total_coords_count(ret.geom) <= Ceiling \/ iteration = max_iterations)

\* C3: the call never ends in an error, whatever target_points and
\* max_iterations, and runs the loop body at most max_iterations times.
C3_NeverFails ==
    /\ pc # "error"
    /\ iteration <= max_iterations

\* C4: every pass of the loop body leaves the tolerance at least as large as it
\* was and at most twice as large.
C4_ToleranceSteps ==
    [][LoopBody => /\ RatLeq(tolerance, tolerance')
                   /\ RatLeq(tolerance', RatScale(tolerance, 2, 1))]_vars

\* C5: the second call, made on the geometry the first one returned with the
\* same target_points and max_iterations, takes the fast path: no geom.simplify,
\* the geometry returned unchanged, tolerance 0.
C5_FixedPoint ==
    (call_no = 2 /\ Returned) =>
        /\ n_calls = 0
        /\ ret.geom = first_ret.geom
        /\ ret.tolerance = ZeroTol

\* C10: geom.simplify is only ever invoked on the original geom, with
\* preserve_topology=True and the current tolerance, once before the loop and
\* once per pass; at every loop head and at return simplified is its result,
\* and the tuple returned from the search carries that geometry, that tolerance
\* and that geometry's count.
C10_AlwaysFromOriginal ==
    ((pc \in {"loop", "error"}) \/ (Returned /\ n_calls > 0)) =>
        /\ last_call = [geom |-> geom, tolerance |-> tolerance, preserve_topology |-> TRUE]
        /\ n_calls = iteration + 1
        /\ simplified = simplify(geom, tolerance, TRUE)
        /\ Returned => /\ ret.geom = simplified
                       /\ ret.tolerance = tolerance
                       /\ ret.original = total_coords_count(geom)
                       /\ ret.simplified_n = total_coords_count(simplified)

\* a search that ran the loop body on a polygon the first pass had already shrunk
C10_Witness ==
    /\ Returned /\ iteration >= 2
    /\ total_coords_count(simplify(geom, InitTol, TRUE)) < total_coords_count(geom)
----------------------------------------------------------------------------
(* Properties of the pipeline, checked under Spec                           *)

\* the features of the input file, as parsed
FileFeatures ==
    IF file.type = "FeatureCollection" THEN file.features
    ELSE IF file.type = "Feature" THEN <<file>> ELSE <<>>

\* The polygons a feature list is expected to yield, in feature order then part
\* order, each with the index of its feature: N for a MultiPolygon of N parts,
\* one for a Polygon, none for anything else.
RECURSIVE ExpectedFrom(_, _)
ExpectedFrom(fs, j) ==
    IF j > Len(fs) THEN <<>>
    ELSE LET raw  == fs[j].geometry.val
             mine == IF raw.type = "MultiPolygon"
                     THEN [q \in 1..Len(raw.parts) |->
                             [poly |-> Polygon(raw.parts[q]), feature |-> j]]
                     ELSE IF raw.type = "Polygon"
                     THEN <<[poly |-> Polygon(raw.coordinates), feature |-> j]>>
                     ELSE <<>>
         IN  mine \o ExpectedFrom(fs, j + 1)

Expected == ExpectedFrom(FileFeatures, 1)

Written   == ppc = "done"
\* the latest call of adaptive_polygon_simplify has returned and been emitted
Emitted   == pc = "done" /\ ppc # "call"
NoSimplif == Str("Aucune simplification")
InfoOf(i) == all_records[i]["simplification_info"]

\* C6: an input of one Feature whose Polygon has exactly 800 exterior
\* coordinates and no hole yields exactly one row and one feature, and the row's
\* simplification_info reports 800 and a final count of at most 780.
C6_BudgetReached ==
    LET fs == FileFeatures
    IN  ( /\ Written /\ Len(fs) = 1
          /\ fs[1].geometry.val.type = "Polygon"
          /\ Len(fs[1].geometry.val.coordinates) = 1
          /\ RingLen(fs[1].geometry.val.coordinates[1]) = 800 ) =>
        /\ Len(excel.rows) = 1
        /\ Len(out_geojson.features) = 1
        /\ excel.rows[1]["simplification_info"].n[1] = 800
        /\ excel.rows[1]["simplification_info"].n[2] <= 780

\* C7: rows and features are emitted one pair per expected polygon, in the
\* expected order: the polygon being simplified is always the next expected one,
\* what is appended is what that call returned, a row and its feature hold the
\* same geometry, and once written both files hold as many entries as there
\* are expected polygons (a LineString adding none).
C7_CardinalityAndOrder ==
    LET n == Len(simplified_features)
    IN  /\ n <= Len(Expected)
        /\ ppc # "error" => Len(all_records) = n
        /\ Len(all_records) \in {n - 1, n}
        /\ ppc = "call" => geom = Expected[n + 1].poly
        /\ Emitted => /\ n >= 1
                      /\ geom = Expected[n].poly
                      /\ simplified_features[n].geometry = mapping(ret.geom)
        /\ \A i \in 1..Len(all_records) :
              /\ all_records[i]["geometry"] = dumps(simplified_features[i].geometry)
              /\ IF InfoOf(i) = NoSimplif
                 THEN simplified_features[i].geometry = mapping(Expected[i].poly)
                 ELSE InfoOf(i).n[1] = total_coords_count(Expected[i].poly)
        /\ Written => /\ n = Len(Expected)
                      /\ excel.rows = all_records
                      /\ Len(out_geojson.features) = n
                      /\ \A i \in 1..n : out_geojson.features[i].geometry
                                            = simplified_features[i].geometry

\* both files written from a Polygon, a LineString and a MultiPolygon of 3 parts
C7_Witness ==
    /\ Written
    /\ Len(FileFeatures) = 3 /\ Len(Expected) = 4
    /\ \E j \in 1..3 : FileFeatures[j].geometry.val.type = "LineString"
    /\ Len(excel.rows) = 4

\* tol = m * 10^e up to half a unit of the digit m
CorrectlyRounded(tol, m, e) ==
    LET k  == e - InitTolExp
        a  == IF k >= 0 THEN tol.num ELSE BigMul(tol.num, Pow10(0 - k))
        b  == IF k >= 0 THEN BigMul(tol.den, Pow10(k)) ELSE tol.den
    IN  /\ m \in 1..9
        /\ Cmp(MulSmall(b, 2 * m - 1), MulSmall(a, 2)) <= 0
        /\ Cmp(MulSmall(a, 2), MulSmall(b, 2 * m + 1)) <= 0

\* C8: a row says "Aucune simplification" exactly when the call returned
\* tolerance 0, which is exactly when its polygon counted at most 780
\* coordinates; any other row carries the polygon's original count, the count of
\* the geometry emitted and the tolerance returned, to one significant digit.
C8_SimplificationInfo ==
    /\ \A i \in 1..Len(all_records) :
          /\ (InfoOf(i) = NoSimplif) <=> (total_coords_count(Expected[i].poly) <= Ceiling)
          /\ InfoOf(i) # NoSimplif =>
                /\ InfoOf(i).s = "_→_ points (tolérance=_e_)"
                /\ Len(InfoOf(i).n) = 4
                /\ InfoOf(i).n[1] = total_coords_count(Expected[i].poly)
                /\ InfoOf(i).n[2] = total_coords_count(shape(simplified_features[i].geometry))
    /\ (Emitted /\ ppc # "error") =>
          LET last == InfoOf(Len(all_records))
          IN  /\ (last = NoSimplif) <=> (ret.tolerance = ZeroTol)
              /\ last # NoSimplif =>
                    CorrectlyRounded(ret.tolerance, last.n[3], last.n[4])

\* a summary row for a polygon the search shrank, then the three
\* "Aucune simplification" rows of a MultiPolygon of 3 polygons of 10 coordinates
C8_Witness ==
    /\ Written /\ Len(all_records) = 4
    /\ InfoOf(1) # NoSimplif /\ InfoOf(1).n[2] < InfoOf(1).n[1]
    /\ \A i \in 2..4 : /\ InfoOf(i) = NoSimplif
                       /\ total_coords_count(Expected[i].poly) = 10
                       /\ Expected[i].feature = 3

\* C9: no dict that properties refer to is ever changed: a parsed one keeps the
\* mapping of the file, a defaulted one stays empty; every output feature refers
\* to the dict of its source feature (all parts of a MultiPolygon to the same
\* one) and is written with exactly the source's attributes; a row is a copy of
\* them plus the two derived fields.
C9_AttributesUntouched ==
    LET src(j) == FileFeatures[j].properties
    IN  /\ \A j \in 1..Len(heap) :
              heap[j] = IF j <= Len(features) THEN src(j).val ELSE EmptyDict
        /\ \A i \in 1..Len(simplified_features) :
              LET j == Expected[i].feature
                  r == simplified_features[i].properties
              IN  /\ src(j).kind = "null" <=> r = None
                  /\ src(j).kind = "dict" => r = j
                  /\ src(j).kind = "absent" => r > Len(features) /\ r <= Len(heap)
                  /\ \A i2 \in 1..Len(simplified_features) :
                        Expected[i2].feature = j => simplified_features[i2].properties = r
        /\ \A i \in 1..Len(all_records) :
              LET d == src(Expected[i].feature).val
              IN  /\ DOMAIN all_records[i] = (DOMAIN d) \cup {"geometry", "simplification_info"}
                  /\ \A k \in (DOMAIN d) \ {"geometry", "simplification_info"} :
                        all_records[i][k] = d[k]
        /\ Written =>
              \A i \in 1..Len(out_geojson.features) :
                  out_geojson.features[i].properties
                     = PropsDict(src(Expected[i].feature).val)

\* both files written, three polygons exploded from one feature with attributes
C9_Witness ==
    /\ Written
    /\ \E j \in 1..Len(FileFeatures) :
          /\ FileFeatures[j].properties.kind = "dict"
          /\ FileFeatures[j].properties.val # EmptyDict
          /\ Cardinality({i \in 1..Len(out_geojson.features) : Expected[i].feature = j}) = 3
====
